---------------------------- MODULE Spec2Model ----------------------------
(***************************************************************************)
(* Blogicum (django_sprint4): the stored rows (users, categories, posts,   *)
(* comments), the clock, and one action per view of blog/views.py and per  *)
(* list_editable operation of blog/admin.py.                               *)
(*                                                                         *)
(* A view is two definitions: X_response, the HTTP response the view gives *)
(* to a request in the current state (a set of responses for a listing,    *)
(* whose order among equal pub_dates is the database's choice), and the    *)
(* action X, what the request does to the stored rows.  A response is an   *)
(* output, not stored state: a read view changes nothing.                  *)
(*                                                                         *)
(* A post row keeps the fields the views read: author, pub_date,           *)
(* is_published, category.  title, text, location and image are copied     *)
(* from the form exactly like pub_date and category and are read by no     *)
(* view, so they are not carried.  A comment row keeps author, post, text. *)
(***************************************************************************)
EXTENDS Integers, Sequences, FiniteSets, TLC

VARIABLES users, catPublished, posts, comments, nextPostId, nextCommentId, now

(* the stored rows *)
db == <<users, catPublished, posts, comments>>
vars == <<users, catPublished, posts, comments, nextPostId, nextCommentId, now>>

---------------------------------------------------------------------------
(* Bounds of the model *)

MaxPosts == 1
MaxComments == 2
MaxTime == 2
MaxPage == 2
PagePosts == 11

(* paginate_by of PostListMixin *)
paginate_by == 10

Users == {"u1", "u2"}
Anonymous == "anon"
Requesters == Users \cup {Anonymous}
Usernames == {"alice", "bob", "carol"}
Categories == {"c1", "c2"}
Slugs == Categories \cup {"nope"}
Texts == {"t1", "t2"}
Dates == 1..MaxTime
PostIds == 1..MaxPosts
CommentIds == 1..MaxComments
(* ids a URL can name: the stored ones and one that is never allocated *)
UrlPostIds == 1..(MaxPosts + 1)
UrlCommentIds == 1..(MaxComments + 1)
Pages == 1..MaxPage

(* The submitted forms: every valid one, and one that fails validation.   *)
(* A GET carries no form: it is paired with the blank, invalid one.        *)
BlankPostForm == [valid |-> FALSE, pub_date |-> 1, category |-> "c1"]
PostForms ==
    [valid : {TRUE}, pub_date : Dates, category : Categories] \cup {BlankPostForm}
BlankCommentForm == [valid |-> FALSE, text |-> "t1"]
CommentForms == [valid : {TRUE}, text : Texts] \cup {BlankCommentForm}
BlankProfileForm == [valid |-> FALSE, username |-> "alice"]
ProfileForms == [valid : {TRUE}, username : Usernames] \cup {BlankProfileForm}

PostRequests == {<<"GET", BlankPostForm>>} \cup {<<"POST", f>> : f \in PostForms}
CommentRequests ==
    {<<"GET", BlankCommentForm>>} \cup {<<"POST", f>> : f \in CommentForms}
ProfileRequests ==
    {<<"GET", BlankProfileForm>>} \cup {<<"POST", f>> : f \in ProfileForms}
DeleteRequests == {"GET", "POST"}

---------------------------------------------------------------------------
(* request.user *)

is_authenticated(user) == user \in Users

(* request.user.username; AnonymousUser.username is the empty string *)
username_of(user) == IF user \in Users THEN users[user] ELSE ""

---------------------------------------------------------------------------
(* Responses *)

NoLocation == [to |-> "", id |-> 0, name |-> ""]
LoginUrl == [to |-> "login", id |-> 0, name |-> ""]
PostDetailUrl(post_id) == [to |-> "post_detail", id |-> post_id, name |-> ""]
ProfileUrl(username) == [to |-> "profile", id |-> 0, name |-> username]

(* the request goes on to the next dispatch of the chain *)
NoResponse == [status |-> 0, location |-> NoLocation, object |-> 0, items |-> <<>>]

Http404 == [status |-> 404, location |-> NoLocation, object |-> 0, items |-> <<>>]

redirect(location) ==
    [status |-> 302, location |-> location, object |-> 0, items |-> <<>>]

(* a rendered template: a form page, a confirmation page, a detail page *)
render(object) ==
    [status |-> 200, location |-> NoLocation, object |-> object, items |-> <<>>]

(* a rendered page of a listing: page_obj.object_list *)
render_list(items) ==
    [status |-> 200, location |-> NoLocation, object |-> 0, items |-> items]

---------------------------------------------------------------------------
(* Rows *)

Post(author, pub_date, category) ==
    [author |-> author, pub_date |-> pub_date, is_published |-> TRUE,
     category |-> category]

Comment(author, post_id, text) ==
    [author |-> author, post |-> post_id, text |-> text]

PostRows ==
    [author : Users, pub_date : Nat, is_published : BOOLEAN,
     category : Categories]

CommentRows == [author : Users, post : Nat, text : Texts]

(* f without the row k *)
Without(f, k) == [i \in DOMAIN f \ {k} |-> f[i]]

(* f with the row k set to v (inserted when absent) *)
With(f, k, v) == [i \in DOMAIN f \cup {k} |-> IF i = k THEN v ELSE f[i]]

(* Comment.post is a foreign key to Post: deleting a post deletes its      *)
(* comments (blog/models.py, on_delete=CASCADE)                            *)
CascadeComments(post_id) ==
    [c \in {d \in DOMAIN comments : comments[d].post # post_id} |-> comments[c]]

---------------------------------------------------------------------------
(* PostListMixin: annotate(comment_count=Count("comments")), order_by,     *)
(* paginate_by                                                             *)

(* Post LEFT OUTER JOIN Comment ON comment.post_id = post.id; a post       *)
(* without comments joins one row whose comment id is NULL (0)             *)
JoinComments ==
    {r \in (DOMAIN posts) \X (DOMAIN comments) : comments[r[2]].post = r[1]}
    \cup {<<p, 0>> : p \in {q \in DOMAIN posts :
                              \A c \in DOMAIN comments : comments[c].post # q}}

(* the number of joined rows of the group, NULL rows included *)
CountStar(post_id) ==
    Cardinality({r \in JoinComments : r[1] = post_id})

(* Count("comments") over the group of post_id: COUNT(comment.id) *)
comment_count(post_id) ==
    Cardinality({r \in JoinComments : r[1] = post_id /\ r[2] # 0})

(* GROUP BY post.id: one annotated row per post *)
PostListMixin_get_queryset ==
    {[id |-> p, comment_count |-> comment_count(p)] :
        p \in {r[1] : r \in JoinComments}}

(* order_by("-pub_date"): every sequence of the rows with pub_date         *)
(* non-increasing; the order among equal pub_dates is the database's       *)
(* choice, made anew by each query                                         *)
RECURSIVE order_by_pub_date_desc(_)
order_by_pub_date_desc(rows) ==
    IF rows = {} THEN {<<>>}
    ELSE LET newest == {r \in rows : \A s \in rows :
                            posts[s.id].pub_date <= posts[r.id].pub_date}
         IN  UNION {{<<r>> \o t : t \in order_by_pub_date_desc(rows \ {r})} :
                        r \in newest}

(* Paginator.num_pages with orphans = 0 and allow_empty_first_page *)
num_pages(count) ==
    IF count = 0 THEN 1 ELSE (count + paginate_by - 1) \div paginate_by

(* Paginator.page(number).object_list: queryset[bottom:top] *)
page_of(ordered, number) ==
    LET bottom == (number - 1) * paginate_by
        top == IF bottom + paginate_by >= Len(ordered)
               THEN Len(ordered) ELSE bottom + paginate_by
    IN  SubSeq(ordered, bottom + 1, top)

(* ListView.get with paginate_by: an invalid page number is a 404, a valid *)
(* one renders the slice of the ordered queryset                           *)
paginate_queryset(rows, number) ==
    IF number \notin 1..num_pages(Cardinality(rows))
    THEN {Http404}
    ELSE {render_list(page_of(ordered, number)) :
            ordered \in order_by_pub_date_desc(rows)}

---------------------------------------------------------------------------
(* Querysets of the three listings *)

(* the filter without its pub_date__lt clause *)
published_filter_no_date(rows) ==
    {r \in rows : /\ posts[r.id].is_published
                  /\ catPublished[posts[r.id].category]}

(* .filter(pub_date__lt=timezone.now(), is_published=True,                 *)
(*         category__is_published=True)                                    *)
published_filter(rows) ==
    {r \in rows : /\ posts[r.id].pub_date < now
                  /\ posts[r.id].is_published
                  /\ catPublished[posts[r.id].category]}

PostListView_get_queryset == published_filter(PostListMixin_get_queryset)

CategoryListView_get_queryset(category) ==
    {r \in PostListView_get_queryset : posts[r.id].category = category}

(* the filter for another viewer is built and its result dropped: the      *)
(* queryset returned is the unfiltered one                                 *)
ProfileListView_get_queryset(username, user) ==
    LET queryset == {r \in PostListMixin_get_queryset :
                        users[posts[r.id].author] = username}
        dropped == IF username_of(user) # username
                   THEN published_filter(queryset) ELSE queryset
    IN  queryset

---------------------------------------------------------------------------
(* Lookups and checks shared by the views *)

(* get_object / get_object_or_404(Post, pk=post_id) finds a row *)
post_exists(post_id) == post_id \in DOMAIN posts

(* get_object of the comment views: Comment.objects, pk=comment_id *)
comment_exists(comment_id) == comment_id \in DOMAIN comments

(* the profile page without its get_object_or_404 *)
profile_exists_always(username) == TRUE

(* get_object_or_404(get_user_model(), username=username) finds a row *)
profile_exists(username) == \E u \in Users : users[u] = username

(* get_object_or_404(Category.objects.filter(is_published=True), slug=slug) *)
category_found(slug) == slug \in Categories /\ catPublished[slug]

(* a check of the login in place of the authorship *)
is_logged_in(author, user) == user \in Users

(* IsAuthorMixin.dispatch lets the request through:                        *)
(* get_object().author.pk == request.user.pk                               *)
is_author(author, user) == author = user

(* the first condition of PostDetailView.dispatch *)
is_hidden(post) ==
    \/ ~post.is_published
    \/ post.pub_date > now
    \/ ~catPublished[post.category]

(* the 404 of a hidden post without the author's exemption *)
detail_denied_to_all(post, user) ==
    ~post.is_published \/ post.pub_date > now \/ ~catPublished[post.category]

(* PostDetailView.dispatch raises Http404: the post is hidden and          *)
(* request.user.pk != post.author.pk                                       *)
detail_denied(post, user) == is_hidden(post) /\ user # post.author

---------------------------------------------------------------------------
(* Read views: a response, and no write *)

PostListView_response(user, number) ==
    paginate_queryset(PostListView_get_queryset, number)

PostListView(user, number) ==
    /\ PostListView_response(user, number) # {}
    /\ UNCHANGED vars

CategoryListView_response(user, slug, number) ==
    IF ~category_found(slug) THEN {Http404}
    ELSE paginate_queryset(CategoryListView_get_queryset(slug), number)

CategoryListView(user, slug, number) ==
    /\ CategoryListView_response(user, slug, number) # {}
    /\ UNCHANGED vars

(* get_context_data paginates, then get_object_or_404 on the username *)
ProfileListView_response(user, username, number) ==
    IF ~profile_exists(username) THEN {Http404}
    ELSE paginate_queryset(ProfileListView_get_queryset(username, user), number)

ProfileListView(user, username, number) ==
    /\ ProfileListView_response(user, username, number) # {}
    /\ UNCHANGED vars

PostDetailView_response(user, post_id) ==
    IF ~post_exists(post_id) THEN Http404
    ELSE IF detail_denied(posts[post_id], user) THEN Http404
    ELSE render(post_id)

PostDetailView(user, post_id) ==
    /\ PostDetailView_response(user, post_id).status # 0
    /\ UNCHANGED vars

---------------------------------------------------------------------------
(* Post create / edit / delete *)

(* form.instance.author = self.request.user; is_published keeps its        *)
(* default, True                                                           *)
PostCreateView_form_valid(user, form) ==
    Post(user, form.pub_date, form.category)

(* PostEditMixin is a LoginRequiredMixin *)
PostCreateView_dispatch(user) ==
    IF ~is_authenticated(user) THEN redirect(LoginUrl) ELSE NoResponse

PostCreateView_response(user, method, form) ==
    IF PostCreateView_dispatch(user) # NoResponse THEN PostCreateView_dispatch(user)
    ELSE IF method = "GET" \/ ~form.valid THEN render(0)
    ELSE redirect(ProfileUrl(username_of(user)))

PostCreateView(user, method, form) ==
    IF PostCreateView_dispatch(user) = NoResponse /\ method = "POST" /\ form.valid
    THEN /\ nextPostId <= MaxPosts
         /\ posts' = With(posts, nextPostId, PostCreateView_form_valid(user, form))
         /\ nextPostId' = nextPostId + 1
         /\ UNCHANGED <<users, catPublished, comments, nextCommentId, now>>
    ELSE UNCHANGED vars

(* PostForm saves its fields into the instance; author and is_published    *)
(* are no fields of the form                                               *)
PostForm_save(post, form) ==
    [post EXCEPT !.pub_date = form.pub_date, !.category = form.category]

(* IsAuthorMixin.dispatch, then LoginRequiredMixin.dispatch, of            *)
(* PostUpdateView and PostDeleteView                                       *)
PostEditMixin_dispatch(user, post_id) ==
    IF ~post_exists(post_id) THEN Http404
    ELSE IF ~is_author(posts[post_id].author, user)
    THEN redirect(PostDetailUrl(post_id))
    ELSE IF ~is_authenticated(user) THEN redirect(LoginUrl)
    ELSE NoResponse

PostUpdateView_response(user, post_id, method, form) ==
    IF PostEditMixin_dispatch(user, post_id) # NoResponse
    THEN PostEditMixin_dispatch(user, post_id)
    ELSE IF method = "GET" \/ ~form.valid THEN render(post_id)
    ELSE redirect(PostDetailUrl(post_id))

PostUpdateView(user, post_id, method, form) ==
    IF /\ PostEditMixin_dispatch(user, post_id) = NoResponse
       /\ method = "POST" /\ form.valid
    THEN /\ posts' = With(posts, post_id, PostForm_save(posts[post_id], form))
         /\ UNCHANGED <<users, catPublished, comments, nextPostId,
                        nextCommentId, now>>
    ELSE UNCHANGED vars

PostDeleteView_response(user, post_id, method) ==
    IF PostEditMixin_dispatch(user, post_id) # NoResponse
    THEN PostEditMixin_dispatch(user, post_id)
    ELSE IF method = "GET" THEN render(post_id)
    ELSE redirect(ProfileUrl(username_of(user)))

PostDeleteView(user, post_id, method) ==
    IF PostEditMixin_dispatch(user, post_id) = NoResponse /\ method = "POST"
    THEN /\ posts' = Without(posts, post_id)
         /\ comments' = CascadeComments(post_id)
         /\ UNCHANGED <<users, catPublished, nextPostId, nextCommentId, now>>
    ELSE UNCHANGED vars

---------------------------------------------------------------------------
(* Comment create / edit / delete *)

(* the comment's author taken from the post instead of the request *)
CommentCreateView_form_valid_post_author(user, post_id, form) ==
    Comment(posts[post_id].author, post_id, form.text)

(* form.instance.author = self.request.user; form.instance.post = post_obj *)
CommentCreateView_form_valid(user, post_id, form) ==
    Comment(user, post_id, form.text)

(* dispatch of the class itself runs first: the post lookup precedes       *)
(* LoginRequiredMixin                                                      *)
CommentCreateView_dispatch(user, post_id) ==
    IF ~post_exists(post_id) THEN Http404
    ELSE IF ~is_authenticated(user) THEN redirect(LoginUrl)
    ELSE NoResponse

CommentCreateView_response(user, post_id, method, form) ==
    IF CommentCreateView_dispatch(user, post_id) # NoResponse
    THEN CommentCreateView_dispatch(user, post_id)
    ELSE IF method = "GET" \/ ~form.valid THEN render(0)
    ELSE redirect(PostDetailUrl(post_id))

CommentCreateView(user, post_id, method, form) ==
    IF /\ CommentCreateView_dispatch(user, post_id) = NoResponse
       /\ method = "POST" /\ form.valid
    THEN /\ nextCommentId <= MaxComments
         /\ comments' = With(comments, nextCommentId,
                             CommentCreateView_form_valid(user, post_id, form))
         /\ nextCommentId' = nextCommentId + 1
         /\ UNCHANGED <<users, catPublished, posts, nextPostId, now>>
    ELSE UNCHANGED vars

(* IsAuthorMixin.dispatch on a comment view:                               *)
(* redirect("blog:post_detail", post_id=self.get_object().pk), where the   *)
(* object is the comment                                                   *)
IsAuthorMixin_redirect_comment(comment_id) == PostDetailUrl(comment_id)

(* CommentMixin.get_success_url: the detail page of get_object().post *)
CommentMixin_get_success_url(comment_id) ==
    PostDetailUrl(comments[comment_id].post)

(* The dispatch chain LoginRequiredMixin, IsAuthorMixin, CommentMixin that *)
(* CommentUpdateView and CommentDeleteView share                           *)
CommentMixin_dispatch(user, post_id, comment_id) ==
    IF ~is_authenticated(user) THEN redirect(LoginUrl)
    ELSE IF ~comment_exists(comment_id) THEN Http404
    ELSE IF ~is_author(comments[comment_id].author, user)
    THEN redirect(IsAuthorMixin_redirect_comment(comment_id))
    ELSE IF ~post_exists(post_id) THEN Http404
    ELSE NoResponse

CommentUpdateView_response(user, post_id, comment_id, method, form) ==
    IF CommentMixin_dispatch(user, post_id, comment_id) # NoResponse
    THEN CommentMixin_dispatch(user, post_id, comment_id)
    ELSE IF method = "GET" \/ ~form.valid THEN render(comment_id)
    ELSE redirect(CommentMixin_get_success_url(comment_id))

CommentUpdateView(user, post_id, comment_id, method, form) ==
    IF /\ CommentMixin_dispatch(user, post_id, comment_id) = NoResponse
       /\ method = "POST" /\ form.valid
    THEN /\ comments' = With(comments, comment_id,
                [comments[comment_id] EXCEPT !.text = form.text])
         /\ UNCHANGED <<users, catPublished, posts, nextPostId,
                        nextCommentId, now>>
    ELSE UNCHANGED vars

CommentDeleteView_response(user, post_id, comment_id, method) ==
    IF CommentMixin_dispatch(user, post_id, comment_id) # NoResponse
    THEN CommentMixin_dispatch(user, post_id, comment_id)
    ELSE IF method = "GET" THEN render(comment_id)
    ELSE redirect(CommentMixin_get_success_url(comment_id))

CommentDeleteView(user, post_id, comment_id, method) ==
    IF /\ CommentMixin_dispatch(user, post_id, comment_id) = NoResponse
       /\ method = "POST"
    THEN /\ comments' = Without(comments, comment_id)
         /\ UNCHANGED <<users, catPublished, posts, nextPostId,
                        nextCommentId, now>>
    ELSE UNCHANGED vars

---------------------------------------------------------------------------
(* Profile edit *)

(* ProfileForm is valid: the username is the user's own or is unused *)
ProfileForm_is_valid(user, form) ==
    form.valid /\ \A u \in Users \ {user} : users[u] # form.username

(* get_object returns request.user: the row the form saves *)
ProfileUpdateView_get_object(user) == user

ProfileUpdateView_dispatch(user) ==
    IF ~is_authenticated(user) THEN redirect(LoginUrl) ELSE NoResponse

ProfileUpdateView_response(user, method, form) ==
    IF ProfileUpdateView_dispatch(user) # NoResponse
    THEN ProfileUpdateView_dispatch(user)
    ELSE IF method = "GET" \/ ~ProfileForm_is_valid(user, form) THEN render(0)
    ELSE redirect(ProfileUrl(form.username))

ProfileUpdateView(user, method, form) ==
    IF /\ ProfileUpdateView_dispatch(user) = NoResponse
       /\ method = "POST" /\ ProfileForm_is_valid(user, form)
    THEN /\ users' = [users EXCEPT
                        ![ProfileUpdateView_get_object(user)] = form.username]
         /\ UNCHANGED <<catPublished, posts, comments, nextPostId,
                        nextCommentId, now>>
    ELSE UNCHANGED vars

---------------------------------------------------------------------------
(* Admin site: the list_editable columns; and the clock *)

PostAdmin_list_editable(post_id) ==
    /\ post_exists(post_id)
    /\ posts' = With(posts, post_id,
            [posts[post_id] EXCEPT !.is_published = ~posts[post_id].is_published])
    /\ UNCHANGED <<users, catPublished, comments, nextPostId, nextCommentId, now>>

CategoryAdmin_list_editable(category) ==
    /\ catPublished' = [catPublished EXCEPT ![category] = ~catPublished[category]]
    /\ UNCHANGED <<users, posts, comments, nextPostId, nextCommentId, now>>

(* timezone.now() advances *)
Tick ==
    /\ now < MaxTime
    /\ now' = now + 1
    /\ UNCHANGED <<users, catPublished, posts, comments, nextPostId,
                   nextCommentId>>

---------------------------------------------------------------------------
(* The application *)

Init ==
    /\ users = [u \in Users |-> IF u = "u1" THEN "alice" ELSE "bob"]
    /\ catPublished = [c \in Categories |-> TRUE]
    /\ posts = <<>>
    /\ comments = <<>>
    /\ nextPostId = 1
    /\ nextCommentId = 1
    /\ now = 1

Index == \E user \in Requesters, number \in Pages : PostListView(user, number)

CategoryPosts ==
    \E user \in Requesters, slug \in Slugs, number \in Pages :
        CategoryListView(user, slug, number)

Profile ==
    \E user \in Requesters, username \in Usernames, number \in Pages :
        ProfileListView(user, username, number)

PostDetail ==
    \E user \in Requesters, post_id \in UrlPostIds : PostDetailView(user, post_id)

CreatePost ==
    \E user \in Requesters, req \in PostRequests :
        PostCreateView(user, req[1], req[2])

EditPost ==
    \E user \in Requesters, post_id \in UrlPostIds, req \in PostRequests :
        PostUpdateView(user, post_id, req[1], req[2])

DeletePost ==
    \E user \in Requesters, post_id \in UrlPostIds, method \in DeleteRequests :
        PostDeleteView(user, post_id, method)

AddComment ==
    \E user \in Requesters, post_id \in UrlPostIds, req \in CommentRequests :
        CommentCreateView(user, post_id, req[1], req[2])

EditComment ==
    \E user \in Requesters, post_id \in UrlPostIds,
       comment_id \in UrlCommentIds, req \in CommentRequests :
        CommentUpdateView(user, post_id, comment_id, req[1], req[2])

DeleteComment ==
    \E user \in Requesters, post_id \in UrlPostIds,
       comment_id \in UrlCommentIds, method \in DeleteRequests :
        CommentDeleteView(user, post_id, comment_id, method)

EditProfile ==
    \E user \in Requesters, req \in ProfileRequests :
        ProfileUpdateView(user, req[1], req[2])

AdminPost == \E post_id \in PostIds : PostAdmin_list_editable(post_id)

AdminCategory == \E category \in Categories : CategoryAdmin_list_editable(category)

Next ==
    \/ Index
    \/ CategoryPosts
    \/ Profile
    \/ PostDetail
    \/ CreatePost
    \/ EditPost
    \/ DeletePost
    \/ AddComment
    \/ EditComment
    \/ DeleteComment
    \/ EditProfile
    \/ AdminPost
    \/ AdminCategory
    \/ Tick

Spec == Init /\ [][Next]_vars

TypeOK ==
    /\ users \in [Users -> Usernames]
    /\ catPublished \in [Categories -> BOOLEAN]
    /\ DOMAIN posts \subseteq PostIds
    /\ \A p \in DOMAIN posts : posts[p] \in PostRows
    /\ DOMAIN comments \subseteq CommentIds
    /\ \A c \in DOMAIN comments : comments[c] \in CommentRows
    /\ nextPostId \in 1..(MaxPosts + 1)
    /\ nextCommentId \in 1..(MaxComments + 1)
    /\ now \in 1..MaxTime

---------------------------------------------------------------------------
(* Listings of many posts: the stored rows are drawn, the listings are     *)
(* requested.  Post i carries pub_date i or i + 1, so that neighbours may  *)
(* share a pub_date; every post is published, in category c1, by u1, and   *)
(* its pub_date is in the past.                                            *)

InitPage ==
    /\ users = [u \in Users |-> IF u = "u1" THEN "alice" ELSE "bob"]
    /\ catPublished = [c \in Categories |-> TRUE]
    /\ \E n \in 0..PagePosts :
         /\ nextPostId = n + 1
         /\ \E late \in SUBSET (1..n) :
              posts = [i \in 1..n |->
                         Post("u1", IF i \in late THEN i + 1 ELSE i, "c1")]
    /\ comments = <<>>
    /\ nextCommentId = 1
    /\ now = PagePosts + 2

NextPage ==
    \/ Index
    \/ CategoryPosts
    \/ Profile

SpecPage == InitPage /\ [][NextPage]_vars

---------------------------------------------------------------------------
(* Vocabulary of the properties *)

(* the post is hidden: unpublished, dated in the future, or in an          *)
(* unpublished category                                                    *)
Hidden(p) ==
    \/ ~posts[p].is_published
    \/ posts[p].pub_date > now
    \/ ~catPublished[posts[p].category]

(* the ids of the posts a response lists *)
Listed(r) == {r.items[i].id : i \in DOMAIN r.items}

(* every response the three listings can give to user *)
IndexResponses(user) ==
    UNION {PostListView_response(user, n) : n \in Pages}
CategoryResponses(user, slug) ==
    UNION {CategoryListView_response(user, slug, n) : n \in Pages}
ProfileResponses(user, username) ==
    UNION {ProfileListView_response(user, username, n) : n \in Pages}
ListingResponses(user) ==
    IndexResponses(user)
    \cup UNION {CategoryResponses(user, slug) : slug \in Slugs}
    \cup UNION {ProfileResponses(user, name) : name \in Usernames}

(* the stored comments of post p *)
CommentsOf(p) == {c \in DOMAIN comments : comments[c].post = p}

---------------------------------------------------------------------------
(* C1: a hidden post is in no listing (index, category, profile of any     *)
(* username) given to a requester who is not its author, and its detail    *)
(* page answers that requester 404.                                        *)
C1_NonAuthorsNeverSeeHidden ==
    \A user \in Requesters : \A p \in DOMAIN posts :
        (posts[p].author # user /\ Hidden(p)) =>
            /\ \A r \in ListingResponses(user) : p \notin Listed(r)
            /\ PostDetailView_response(user, p) = Http404

(* C2: the index and the category listings hold no hidden post, whoever    *)
(* asks; a category listing holds posts of its category only; the listing  *)
(* of an unpublished category is a 404.                                    *)
C2_PublicListingsShowOnlyVisible ==
    \A user \in Requesters :
        /\ \A r \in IndexResponses(user) : \A p \in Listed(r) : ~Hidden(p)
        /\ \A slug \in Categories :
             /\ \A r \in CategoryResponses(user, slug) : \A p \in Listed(r) :
                    ~Hidden(p) /\ posts[p].category = slug
             /\ ~catPublished[slug] => CategoryResponses(user, slug) = {Http404}

(* a post hidden in one of the three ways is stored, its category is       *)
(* published or not, and the index and its category's listing are asked    *)
(* for by its own author                                                   *)
C2_Witness ==
    \E p \in DOMAIN posts :
        /\ posts[p].pub_date > now
        /\ posts[p].is_published /\ catPublished[posts[p].category]
        /\ render_list(<<>>) \in IndexResponses(posts[p].author)
        /\ render_list(<<>>) \in CategoryResponses(posts[p].author, posts[p].category)

(* the requester is not the author of the stored post / comment *)
NotPostAuthor(user, post_id) ==
    post_id \in DOMAIN posts /\ posts[post_id].author # user
NotCommentAuthor(user, comment_id) ==
    comment_id \in DOMAIN comments /\ comments[comment_id].author # user

(* an edit or delete request by a non-author is answered by a redirect *)
C3_Redirected ==
    \A user \in Requesters :
        /\ \A post_id \in UrlPostIds : NotPostAuthor(user, post_id) =>
             /\ \A req \in PostRequests :
                  PostUpdateView_response(user, post_id, req[1], req[2]).status = 302
             /\ \A method \in DeleteRequests :
                  PostDeleteView_response(user, post_id, method).status = 302
        /\ \A comment_id \in UrlCommentIds : NotCommentAuthor(user, comment_id) =>
             \A post_id \in UrlPostIds :
                /\ \A req \in CommentRequests :
                     CommentUpdateView_response(user, post_id, comment_id,
                                                req[1], req[2]).status = 302
                /\ \A method \in DeleteRequests :
                     CommentDeleteView_response(user, post_id, comment_id,
                                                method).status = 302

(* a step that changes a stored row is no edit or delete request of a     *)
(* non-author: such a request writes nothing                               *)
C3_NothingWritten ==
    (db' # db) =>
    \A user \in Requesters :
        /\ \A post_id \in UrlPostIds : NotPostAuthor(user, post_id) =>
             /\ \A req \in PostRequests :
                  ~PostUpdateView(user, post_id, req[1], req[2])
             /\ \A method \in DeleteRequests :
                  ~PostDeleteView(user, post_id, method)
        /\ \A comment_id \in UrlCommentIds : NotCommentAuthor(user, comment_id) =>
             \A post_id \in UrlPostIds :
                /\ \A req \in CommentRequests :
                     ~CommentUpdateView(user, post_id, comment_id, req[1], req[2])
                /\ \A method \in DeleteRequests :
                     ~CommentDeleteView(user, post_id, comment_id, method)

(* C3: an edit or delete request, GET or POST, for a post or a comment by  *)
(* a requester who is not its author (another user, or anonymous) is       *)
(* answered by a redirect and leaves every stored row as it was.           *)
C3_NonAuthorEditRefused == [](C3_Redirected) /\ [][C3_NothingWritten]_vars

(* a post and a comment on it are stored, by different authors: each is a  *)
(* non-author of the other's object, and is redirected                     *)
C3_Witness ==
    \E p \in DOMAIN posts : \E c \in CommentsOf(p) :
        /\ comments[c].author # posts[p].author
        /\ PostUpdateView_response(comments[c].author, p, "POST",
               [valid |-> TRUE, pub_date |-> 1, category |-> "c2"]).status = 302
        /\ CommentDeleteView_response(posts[p].author, p, c, "POST").status = 302
        /\ PostDeleteView_response(Anonymous, p, "POST").status = 302

---------------------------------------------------------------------------
(* Requests that name a missing object *)

MissingPost(post_id) == post_id \notin DOMAIN posts
MissingComment(comment_id) == comment_id \notin DOMAIN comments

(* the views that answer a missing object 404 to every requester *)
C4_Always404(user) ==
    /\ \A post_id \in UrlPostIds : MissingPost(post_id) =>
         /\ PostDetailView_response(user, post_id) = Http404
         /\ \A req \in PostRequests :
              /\ PostUpdateView_response(user, post_id, req[1], req[2]) = Http404
         /\ \A method \in DeleteRequests :
              PostDeleteView_response(user, post_id, method) = Http404
         /\ \A req \in CommentRequests :
              CommentCreateView_response(user, post_id, req[1], req[2]) = Http404
    /\ \A slug \in Slugs \ Categories :
         CategoryResponses(user, slug) = {Http404}
    /\ \A name \in Usernames : (\A u \in Users : users[u] # name) =>
         ProfileResponses(user, name) = {Http404}

(* the responses of comment edit and delete to the request *)
CommentEditResponses(user, post_id, comment_id) ==
    {CommentUpdateView_response(user, post_id, comment_id, req[1], req[2]) :
        req \in CommentRequests}
    \cup {CommentDeleteView_response(user, post_id, comment_id, method) :
            method \in DeleteRequests}

(* C4 as stated: every request that names a missing object is answered    *)
(* 404, whoever the requester is.                                          *)
C4_MissingObjectIs404 ==
    \A user \in Requesters :
        /\ C4_Always404(user)
        /\ \A post_id \in UrlPostIds, comment_id \in UrlCommentIds :
             (MissingPost(post_id) \/ MissingComment(comment_id)) =>
                CommentEditResponses(user, post_id, comment_id) = {Http404}

(* comment edit and delete with a missing object: the login redirect and   *)
(* the author check come before the 404 of the post                        *)
C4_CommentEditAnswers ==
    \A user \in Requesters, post_id \in UrlPostIds, comment_id \in UrlCommentIds :
        (MissingPost(post_id) \/ MissingComment(comment_id)) =>
            LET answers == CommentEditResponses(user, post_id, comment_id)
            IN  IF user = Anonymous THEN answers = {redirect(LoginUrl)}
                ELSE IF MissingComment(comment_id) THEN answers = {Http404}
                ELSE IF comments[comment_id].author # user
                THEN \A r \in answers : r.status = 302
                ELSE answers = {Http404}

(* a step that changes a stored row is no request naming a missing object *)
C4_NothingWritten ==
    (db' # db) =>
    \A user \in Requesters :
        /\ \A post_id \in UrlPostIds : MissingPost(post_id) =>
             /\ \A req \in PostRequests :
                  ~PostUpdateView(user, post_id, req[1], req[2])
             /\ \A method \in DeleteRequests :
                  ~PostDeleteView(user, post_id, method)
             /\ \A req \in CommentRequests :
                  ~CommentCreateView(user, post_id, req[1], req[2])
        /\ \A post_id \in UrlPostIds, comment_id \in UrlCommentIds :
             (MissingPost(post_id) \/ MissingComment(comment_id)) =>
                /\ \A req \in CommentRequests :
                     ~CommentUpdateView(user, post_id, comment_id, req[1], req[2])
                /\ \A method \in DeleteRequests :
                     ~CommentDeleteView(user, post_id, comment_id, method)

(* C4, amended: a request that names a missing object changes no stored    *)
(* row and is answered 404, except by comment edit and comment delete,     *)
(* which redirect an anonymous requester to the login page and redirect a  *)
(* logged-in requester who is not the author of the (existing) comment,    *)
(* and answer 404 otherwise.                                               *)
C4_MissingObjectAnswers ==
    /\ [](\A user \in Requesters : C4_Always404(user))
    /\ [](C4_CommentEditAnswers)
    /\ [][C4_NothingWritten]_vars

(* a comment is stored and a URL names it under a post id that is missing, *)
(* while a username and a comment id are unknown                           *)
C4_Witness ==
    \E c \in DOMAIN comments : \E post_id \in UrlPostIds :
        /\ MissingPost(post_id)
        /\ CommentDeleteView_response(comments[c].author, post_id, c, "POST") = Http404
        /\ \E user \in Users :
             CommentDeleteView_response(user, post_id, c, "POST").status = 302
        /\ \E comment_id \in UrlCommentIds : MissingComment(comment_id)
        /\ ProfileResponses(Anonymous, "carol") = {Http404}

---------------------------------------------------------------------------
---------------------------------------------------------------------------
(* The pages 1..k of a listing, each from a request of its own, laid end   *)
(* to end: every sequence the client can collect                           *)
RECURSIVE Collected(_, _)
Collected(pages, k) ==
    IF k = 0 THEN {<<>>}
    ELSE {c \o r.items : c \in Collected(pages, k - 1), r \in pages[k]}

(* the pages of a listing of rows paginate as C6 says *)
Paginated(rows, pages) ==
    LET n == num_pages(Cardinality(rows)) IN
    /\ \A k \in 1..n : \A r \in pages[k] :
         /\ r.status = 200
         /\ Len(r.items) <= paginate_by
         /\ k < n => Len(r.items) = paginate_by
    /\ \A c \in Collected(pages, n) :
         /\ \A i, j \in DOMAIN c :
              i < j => posts[c[i].id].pub_date >= posts[c[j].id].pub_date
         /\ \A i, j \in DOMAIN c : c[i] = c[j] => i = j
         /\ {c[i] : i \in DOMAIN c} = rows

(* C6: in the index, category and profile listings the selected posts are  *)
(* ordered by pub_date descending and split into pages of at most 10, all  *)
(* but the last of exactly 10, and pages 1..n laid end to end are the      *)
(* selected posts, none missing and none repeated.                         *)
C6_Pagination ==
    \A user \in Requesters :
        /\ Paginated(PostListView_get_queryset,
             [k \in 1..(PagePosts + 1) |-> PostListView_response(user, k)])
        /\ Paginated(CategoryListView_get_queryset("c1"),
             [k \in 1..(PagePosts + 1) |-> CategoryListView_response(user, "c1", k)])
        /\ Paginated(ProfileListView_get_queryset("alice", user),
             [k \in 1..(PagePosts + 1) |-> ProfileListView_response(user, "alice", k)])

---------------------------------------------------------------------------
(* C7: the author of a post gets its detail page, never a 404, and the     *)
(* post is in the author's own profile listing, on some page in whatever   *)
(* order the rows come, hidden or not.                                     *)
C7_AuthorReachesOwnPost ==
    \A p \in DOMAIN posts :
        LET author == posts[p].author
            rows == ProfileListView_get_queryset(users[author], author)
        IN  /\ PostDetailView_response(author, p) = render(p)
            /\ p \in {r.id : r \in rows}
            /\ \A ordered \in order_by_pub_date_desc(rows) :
                 \E number \in 1..num_pages(Cardinality(rows)) :
                    p \in Listed(render_list(page_of(ordered, number)))
            /\ ProfileListView_response(author, users[author], 1) # {Http404}

(* a post hidden in all three ways is stored *)
C7_Witness ==
    \E p \in DOMAIN posts :
        /\ ~posts[p].is_published
        /\ posts[p].pub_date > now
        /\ ~catPublished[posts[p].category]
        /\ PostDetailView_response(posts[p].author, p).status = 200

---------------------------------------------------------------------------
(* C8: a logged-in non-author who requests edit or delete is redirected to *)
(* the detail page of the post concerned: of the post itself, or of the    *)
(* post the comment belongs to.                                            *)
C8_RedirectToPostOfObject ==
    \A user \in Users :
        /\ \A post_id \in UrlPostIds : NotPostAuthor(user, post_id) =>
             /\ \A req \in PostRequests :
                  PostUpdateView_response(user, post_id, req[1], req[2])
                      = redirect(PostDetailUrl(post_id))
             /\ \A method \in DeleteRequests :
                  PostDeleteView_response(user, post_id, method)
                      = redirect(PostDetailUrl(post_id))
        /\ \A comment_id \in UrlCommentIds : NotCommentAuthor(user, comment_id) =>
             \A post_id \in UrlPostIds :
                CommentEditResponses(user, post_id, comment_id)
                    = {redirect(PostDetailUrl(comments[comment_id].post))}

---------------------------------------------------------------------------
(* The write views, as requests of user *)

WritesBy(user) ==
    \/ \E req \in PostRequests : PostCreateView(user, req[1], req[2])
    \/ \E post_id \in UrlPostIds :
         \/ \E req \in PostRequests : PostUpdateView(user, post_id, req[1], req[2])
         \/ \E method \in DeleteRequests : PostDeleteView(user, post_id, method)
         \/ \E req \in CommentRequests :
              CommentCreateView(user, post_id, req[1], req[2])
         \/ \E comment_id \in UrlCommentIds :
              \/ \E req \in CommentRequests :
                   CommentUpdateView(user, post_id, comment_id, req[1], req[2])
              \/ \E method \in DeleteRequests :
                   CommentDeleteView(user, post_id, comment_id, method)
    \/ \E req \in ProfileRequests : ProfileUpdateView(user, req[1], req[2])

C9_Step ==
    (db' # db) =>
    (* an author never changes *)
    /\ \A p \in DOMAIN posts \cap DOMAIN posts' :
         posts'[p].author = posts[p].author
    /\ \A c \in DOMAIN comments \cap DOMAIN comments' :
         comments'[c].author = comments[c].author
    (* a new row is the work of a create request of a logged-in user, and   *)
    (* carries the requester of every create request that gives this step  *)
    /\ \A p \in DOMAIN posts' \ DOMAIN posts :
         /\ \E user \in Users, req \in PostRequests :
              PostCreateView(user, req[1], req[2])
         /\ \A user \in Requesters, req \in PostRequests :
              PostCreateView(user, req[1], req[2]) => posts'[p].author = user
    /\ \A c \in DOMAIN comments' \ DOMAIN comments :
         /\ \E user \in Users, post_id \in UrlPostIds, req \in CommentRequests :
              CommentCreateView(user, post_id, req[1], req[2])
         /\ \A user \in Requesters, post_id \in UrlPostIds, req \in CommentRequests :
              CommentCreateView(user, post_id, req[1], req[2])
                  => comments'[c].author = user
    (* an anonymous request writes nothing *)
    /\ ~WritesBy(Anonymous)
    (* a profile edit writes the requester's row only *)
    /\ \A user \in Requesters, req \in ProfileRequests :
         ProfileUpdateView(user, req[1], req[2]) =>
            /\ \A u \in Users \ {user} : users'[u] = users[u]
            /\ UNCHANGED <<catPublished, posts, comments>>

(* C9: the author of a post or comment is the logged-in user whose create  *)
(* request stored it and no later step changes it; an anonymous request to *)
(* a write view writes nothing; a profile edit writes only the row of the  *)
(* requester.                                                              *)
C9_AuthorshipIntegrity == [][C9_Step]_vars

(* a post of u1 carries a comment of u2, who has renamed the account *)
C9_Witness ==
    \E p \in DOMAIN posts : \E c \in CommentsOf(p) :
        /\ posts[p].author = "u1"
        /\ comments[c].author = "u2"
        /\ users["u2"] = "carol"

---------------------------------------------------------------------------
C10_Step ==
    \A user \in Users, post_id \in UrlPostIds, req \in CommentRequests :
        (/\ comments' # comments
         /\ CommentCreateView(user, post_id, req[1], req[2]))
            => PostDetailView_response(user, post_id) # Http404

(* C10: no comment is stored on a post by a user to whom the detail page   *)
(* of that post answers 404.                                               *)
C10_CommentOnlyOnVisible == [][C10_Step]_vars

=============================================================================
